---- MODULE Spec2Model ----
(***************************************************************************)
(* Tankerkoenig fuel-price sensor for Home Assistant.                      *)
(*                                                                         *)
(* Two variants of the integration exist in the repository:                *)
(*   "custom"  custom_components/tankerkoenig/sensor.py (TankerkoenigApi)  *)
(*   "legacy"  sensor.py (RestData + json.loads, checks the "ok" flag)     *)
(*                                                                         *)
(* The model follows TankerkoenigSensor.update statement by statement, so  *)
(* that a reader of the state / attributes properties and a concurrent     *)
(* caller of update can be interleaved at every point of a running cycle.  *)
(* JSON values are tagged records, Python's operations on them (truth      *)
(* value, subscription, str.title, +) are operators that either yield a    *)
(* value or raise, and time is counted in minutes.                         *)
(***************************************************************************)
EXTENDS Integers, Sequences, FiniteSets, TLC

\* ------------------------------------------------------------------------
\* Bounds of the model
\* ------------------------------------------------------------------------

\* Minutes that pass in one step of the clock.
TickMinutes == 5

\* ------------------------------------------------------------------------
\* Program constants
\* ------------------------------------------------------------------------

\* MIN_TIME_BETWEEN_UPDATES = timedelta(minutes=10), in minutes.
MIN_TIME_BETWEEN_UPDATES == 10

ATTR_BRAND == "brand"
ATTR_ADDRESS == "address"
ATTR_STATUS == "status"
ATTR_LATITUDE == "latitude"
ATTR_LONGITUDE == "longitude"
ATTR_ATTRIBUTION == "attribution"
ATTRIBUTION == "Data provided by Tankerkoenig"

AttrKeys ==
    {ATTR_BRAND, ATTR_ADDRESS, ATTR_STATUS, ATTR_LATITUDE, ATTR_LONGITUDE,
     ATTR_ATTRIBUTION}

Sensors == {"s1", "s2"}
Variants == {"custom", "legacy"}

\* ------------------------------------------------------------------------
\* Python / JSON values
\* ------------------------------------------------------------------------

None == [t |-> "null"]
Bool(b) == [t |-> "bool", b |-> b]
Num(n) == [t |-> "num", n |-> n]
Str(s) == [t |-> "str", s |-> s]
List(items) == [t |-> "list", items |-> items]
Dict(d) == [t |-> "dict", d |-> d]
\* A key that a dict does not hold.
Absent == [t |-> "absent"]
\* A Python string constant of the program (not a JSON string).
Const(c) == [t |-> "const", c |-> c]

\* The result of evaluating an expression: a value, or an exception raised.
Ok(v) == [exc |-> "", val |-> v]
Raise(e) == [exc |-> e]

\* bool(v)
Truthy(v) ==
    CASE v.t = "null" -> FALSE
      [] v.t = "bool" -> v.b
      [] v.t = "num" -> v.n # 0
      [] v.t = "str" -> Len(v.s) > 0
      [] v.t = "list" -> Len(v.items) > 0
      [] v.t = "dict" -> DOMAIN v.d # {}
      [] v.t = "text" -> v.body.t # "empty"
      [] OTHER -> TRUE

\* v[k] for a string key k
GetItem(v, k) ==
    CASE v.t = "dict" -> IF k \in DOMAIN v.d THEN Ok(v.d[k]) ELSE Raise("KeyError")
      [] OTHER -> Raise("TypeError")

\* v[0]
Index0(v) ==
    CASE v.t = "list" -> IF Len(v.items) > 0 THEN Ok(v.items[1]) ELSE Raise("IndexError")
      [] v.t = "str" -> IF Len(v.s) > 0 THEN Ok(Str(<<v.s[1]>>)) ELSE Raise("IndexError")
      [] v.t = "dict" -> Raise("KeyError")
      [] OTHER -> Raise("TypeError")

\* Characters: some letters in both cases; every other character (digits,
\* the space, the hyphen) is uncased.
LowerChars == <<"a", "e", "h", "l", "p", "r", "s", "t", "u">>
UpperChars == <<"A", "E", "H", "L", "P", "R", "S", "T", "U">>
IsLower(c) == \E i \in 1..Len(LowerChars) : LowerChars[i] = c
IsUpper(c) == \E i \in 1..Len(UpperChars) : UpperChars[i] = c
IsCased(c) == IsLower(c) \/ IsUpper(c)
ToUpper(c) ==
    IF IsLower(c)
    THEN UpperChars[CHOOSE i \in 1..Len(LowerChars) : LowerChars[i] = c]
    ELSE c
ToLower(c) ==
    IF IsUpper(c)
    THEN LowerChars[CHOOSE i \in 1..Len(UpperChars) : UpperChars[i] = c]
    ELSE c

\* str.title(): the loop over the characters keeps previous_is_cased; a
\* character that follows a cased character is lowercased, any other
\* character is titlecased.
Title(s) ==
    LET previous_is_cased == [i \in 1..Len(s) |-> IF i = 1 THEN FALSE ELSE IsCased(s[i - 1])]
    IN  [i \in 1..Len(s) |-> IF previous_is_cased[i] THEN ToLower(s[i]) ELSE ToUpper(s[i])]

\* v.title()
title(v) == IF v.t = "str" THEN Ok(Str(Title(v.s))) ELSE Raise("AttributeError")

\* a + b, for a a string
Add(a, b) ==
    IF a.t = "str" /\ b.t = "str" THEN Ok(Str(a.s \o b.s)) ELSE Raise("TypeError")

\* ------------------------------------------------------------------------
\* What the provider's endpoint can answer to one GET
\* ------------------------------------------------------------------------

NoReply == [transport |-> "none"]
NetworkError == [transport |-> "network"]
Timeout == [transport |-> "timeout"]
Http(status, body) == [transport |-> "ok", status |-> status, body |-> body]
\* A body that is no JSON text, and the body of no characters.
Garbage == [t |-> "garbage"]
EmptyBody == [t |-> "empty"]

DictSet(v, k, x) == Dict((k :> x) @@ v.d)
DictDel(v, k) == Dict([j \in DOMAIN v.d \ {k} |-> v.d[j]])

aral == <<"a", "r", "a", "l">>
hauptstrasse == <<"h", "a", "u", "p", "t", "s", "t", "r", "a", "s", "s", "e">>
SHell == <<"S", "H", "e", "l", "l">>
alte_str1a == <<"a", "l", "t", "e", " ", "s", "t", "r", "1", "a">>

\* The station of the specification's example.
StationA ==
    Dict([price |-> Num(1679), brand |-> Str(aral), street |-> Str(hauptstrasse),
          houseNumber |-> Str(<<"1", "2">>), isOpen |-> Bool(TRUE),
          lat |-> Num(501), lng |-> Num(86)])
\* A cheaper, closed station whose strings are not in title case.
StationB ==
    Dict([price |-> Num(1599), brand |-> Str(SHell), street |-> Str(alte_str1a),
          houseNumber |-> Str(<<"7", "a">>), isOpen |-> Bool(FALSE),
          lat |-> Num(502), lng |-> Num(87)])

Envelope(stations) == Dict([ok |-> Bool(TRUE), stations |-> stations])

ValidReplies ==
    { Http(200, Envelope(List(<<StationA, StationB>>))),
      Http(200, Envelope(List(<<StationB>>))) }

FailedReplies ==
    { NetworkError, Timeout,
      Http(500, Garbage),
      Http(500, Envelope(List(<<StationA>>))),
      Http(200, Garbage),
      Http(200, EmptyBody) }

\* Envelopes that are JSON but hold no station list, or an empty one.
EmptyReplies ==
    { Http(200, None),
      Http(200, Dict([j \in {} |-> None])),
      Http(200, Dict([ok |-> Bool(TRUE)])),
      Http(200, Dict([ok |-> Bool(FALSE)])),
      Http(200, Envelope(List(<<>>))),
      Http(200, Envelope(None)),
      Http(200, Dict([stations |-> List(<<>>)])) }

\* Envelopes and station records with missing or wrongly typed parts.
MalformedReplies ==
    { Http(200, List(<<Num(1)>>)),
      Http(200, Dict([ok |-> Bool(FALSE), stations |-> List(<<StationA>>)])),
      Http(200, Dict([stations |-> List(<<StationA>>)])),
      Http(200, Envelope(List(<<Num(1)>>))),
      Http(200, Envelope(List(<<DictDel(StationA, "price")>>))),
      Http(200, Envelope(List(<<DictDel(StationA, "brand")>>))),
      Http(200, Envelope(List(<<DictSet(StationA, "brand", None)>>))),
      Http(200, Envelope(List(<<DictSet(StationA, "price", None)>>))),
      Http(200, Envelope(List(<<DictSet(StationB, "houseNumber", Num(7))>>))),
      Http(200, Envelope(List(<<DictDel(StationB, "lng")>>))) }

Replies == ValidReplies \cup FailedReplies \cup EmptyReplies \cup MalformedReplies

\* The replies used where two sensors run side by side.
CoreReplies ==
    { Http(200, Envelope(List(<<StationA, StationB>>))),
      Timeout,
      Http(200, Envelope(List(<<DictDel(StationA, "brand")>>))) }

\* ------------------------------------------------------------------------
\* The Fetcher
\* ------------------------------------------------------------------------

\* (variant of the code) get_stations without response.raise_for_status()
get_stations_any_status(r) ==
    IF r.transport # "ok" THEN None
    ELSE IF r.body.t \in {"garbage", "empty"} THEN None
    ELSE r.body

\* TankerkoenigApi.get_stations: requests.get, raise_for_status and
\* response.json() inside try; RequestException and ValueError return None.
get_stations(r) ==
    IF r.transport # "ok" THEN None
    ELSE IF r.status >= 400 THEN None
    ELSE IF r.body.t \in {"garbage", "empty"} THEN None
    ELSE r.body

\* RestData.update followed by rest.data (legacy variant): the response text,
\* whatever the status, or None when the request failed.
rest_data(r) ==
    IF r.transport # "ok" THEN None ELSE [t |-> "text", body |-> r.body]

\* json.loads(text)
json_loads(text) ==
    IF text.body.t \in {"garbage", "empty"} THEN Raise("ValueError") ELSE Ok(text.body)

\* ------------------------------------------------------------------------
\* TankerkoenigSensor.update: from the reply to the station list
\* ------------------------------------------------------------------------

\* custom variant: stations = None; if result: try stations = result["stations"]
\* except KeyError (logged).  Any other exception leaves update.
stations_custom(r) ==
    LET result == get_stations(r) IN
    IF Truthy(result)
    THEN LET g == GetItem(result, "stations") IN
         IF g.exc = "KeyError" THEN Ok(None) ELSE g
    ELSE Ok(None)

\* legacy variant: stations = []; if result: try json.loads, if ["ok"]:
\* stations = ["stations"], except ValueError (logged).
stations_legacy(r) ==
    LET result == rest_data(r) IN
    IF Truthy(result)
    THEN LET j == json_loads(result) IN
         IF j.exc = "ValueError" THEN Ok(List(<<>>))
         ELSE LET okv == GetItem(j.val, "ok") IN
              IF okv.exc # "" THEN okv
              ELSE IF Truthy(okv.val) THEN GetItem(j.val, "stations")
              ELSE Ok(List(<<>>))
    ELSE Ok(List(<<>>))

StationsOf(v, r) == IF v = "custom" THEN stations_custom(r) ELSE stations_legacy(r)

\* (variant of the code) the cheapest station of the list, found locally
cheapest_station(stations) ==
    IF /\ stations.t = "list"
       /\ Len(stations.items) > 0
       /\ \A i \in 1..Len(stations.items) :
              /\ stations.items[i].t = "dict"
              /\ "price" \in DOMAIN stations.items[i].d
              /\ stations.items[i].d.price.t = "num"
    THEN Ok(stations.items[
             CHOOSE i \in 1..Len(stations.items) :
                 \A j \in 1..Len(stations.items) :
                     stations.items[i].d.price.n <= stations.items[j].d.price.n])
    ELSE Index0(stations)

\* stations[0]
first_station(stations) == Index0(stations)

\* stations[0][k], evaluated as the code does at each use
Field(stations, k) ==
    LET item == first_station(stations) IN
    IF item.exc # "" THEN item ELSE GetItem(item.val, k)

\* stations[0]["brand"].title()
brand_value(stations) ==
    LET f == Field(stations, "brand") IN
    IF f.exc # "" THEN f ELSE title(f.val)

\* stations[0]["street"].title() + stations[0]["houseNumber"]
address_value(stations) ==
    LET f == Field(stations, "street") IN
    IF f.exc # "" THEN f
    ELSE LET t == title(f.val) IN
         IF t.exc # "" THEN t
         ELSE LET h == Field(stations, "houseNumber") IN
              IF h.exc # "" THEN h ELSE Add(t.val, h.val)

\* "open" if stations[0]["isOpen"] else "closed"
status_value(stations) ==
    LET f == Field(stations, "isOpen") IN
    IF f.exc # "" THEN f
    ELSE Ok(Const(IF Truthy(f.val) THEN "open" ELSE "closed"))

\* ------------------------------------------------------------------------
\* State
\* ------------------------------------------------------------------------

VARIABLES
    variant,     \* which of the two sensor.py files is installed
    pc,          \* per sensor: where the one running update call stands
    state,       \* per sensor: self._state
    attributes,  \* per sensor: self._attributes (Absent: the key is not set)
    reply,       \* per sensor: what the GET of the running cycle answered
    stations,    \* per sensor: the local variable stations of the running call
    throttle,    \* per host: host._throttle[id(self)] = [Lock, last run]
    sinceFetch,  \* per sensor: minutes since its last GET began (<<>>: never)
    sinceEnd,    \* per sensor: minutes since its last executed cycle ended
    lastCall,    \* per sensor: how the latest call of update was answered
    before       \* per sensor: the running cycle began with a state set

vars ==
    <<variant, pc, state, attributes, reply, stations, throttle, sinceFetch,
      sinceEnd, lastCall, before>>

NoAttributes == [k \in AttrKeys |-> Absent]

\* (variant of the code) one throttle entry for every sensor, as for a
\* wrapped plain function, whose host is the wrapper itself
shared_host(s) == "s1"

\* The host object that carries the throttle of sensor s: the wrapped
\* function is a method, so the host is args[0], the sensor itself.
ThrottleHost(s) == s

ThrottleOf(s) == throttle[ThrottleHost(s)]

\* TankerkoenigSensor.__init__; the throttle entry is created on first use
\* as [threading.Lock(), None].
Init ==
    /\ variant \in Variants
    /\ pc = [s \in Sensors |-> "idle"]
    /\ state = [s \in Sensors |-> None]
    /\ attributes = [s \in Sensors |-> NoAttributes]
    /\ reply = [s \in Sensors |-> NoReply]
    /\ stations = [s \in Sensors |-> Absent]
    /\ throttle = [s \in Sensors |-> [lock |-> FALSE, last |-> <<>>]]
    /\ sinceFetch = [s \in Sensors |-> <<>>]
    /\ sinceEnd = [s \in Sensors |-> <<>>]
    /\ lastCall = [s \in Sensors |-> "none"]
    /\ before = [s \in Sensors |-> FALSE]

\* ------------------------------------------------------------------------
\* The Throttle wrapper around update
\* ------------------------------------------------------------------------

\* (variant of the code) the comparison alone, without force
throttle_open_no_force(last) == last # <<>> /\ last[1] > MIN_TIME_BETWEEN_UPDATES

\* force or utcnow() - throttle[1] > self.min_time, force = not throttle[1]
ThrottleOpen(last) == last = <<>> \/ last[1] > MIN_TIME_BETWEEN_UPDATES

\* A call of update that finds the lock free and the window open.
WouldExecute(s) == ~ThrottleOf(s).lock /\ ThrottleOpen(ThrottleOf(s).last)

\* A call of sensor.update() by any thread of the host.
update_call(s) ==
    IF ThrottleOf(s).lock
    THEN \* throttle[0].acquire(False) fails: return at once
         /\ lastCall' = [lastCall EXCEPT ![s] = "busy"]
         /\ UNCHANGED <<variant, pc, state, attributes, reply, stations, throttle,
                        sinceFetch, sinceEnd, before>>
    ELSE IF ThrottleOpen(ThrottleOf(s).last)
    THEN \* the lock is held while the method runs
         /\ throttle' = [throttle EXCEPT ![ThrottleHost(s)].lock = TRUE]
         /\ pc' = [pc EXCEPT ![s] = "clear_state"]
         /\ lastCall' = [lastCall EXCEPT ![s] = "executed"]
         /\ before' = [before EXCEPT ![s] = state[s] # None]
         /\ UNCHANGED <<variant, state, attributes, reply, stations, sinceFetch, sinceEnd>>
    ELSE \* within the window: the lock is taken and released, nothing runs
         /\ lastCall' = [lastCall EXCEPT ![s] = "throttled"]
         /\ UNCHANGED <<variant, pc, state, attributes, reply, stations, throttle,
                        sinceFetch, sinceEnd, before>>

\* result = method(...); throttle[1] = utcnow(); finally: release
throttle_return(s) ==
    /\ pc[s] = "returned"
    /\ throttle' = [throttle EXCEPT ![ThrottleHost(s)] = [lock |-> FALSE, last |-> <<0>>]]
    /\ pc' = [pc EXCEPT ![s] = "idle"]
    /\ reply' = [reply EXCEPT ![s] = NoReply]
    /\ stations' = [stations EXCEPT ![s] = Absent]
    /\ sinceEnd' = [sinceEnd EXCEPT ![s] = <<0>>]
    /\ before' = [before EXCEPT ![s] = FALSE]
    /\ UNCHANGED <<variant, state, attributes, sinceFetch, lastCall>>

\* method(...) raised: finally: release; throttle[1] keeps its value and the
\* exception reaches the caller
throttle_raise(s) ==
    /\ pc[s] = "raised"
    /\ throttle' = [throttle EXCEPT ![ThrottleHost(s)].lock = FALSE]
    /\ pc' = [pc EXCEPT ![s] = "idle"]
    /\ reply' = [reply EXCEPT ![s] = NoReply]
    /\ stations' = [stations EXCEPT ![s] = Absent]
    /\ sinceEnd' = [sinceEnd EXCEPT ![s] = <<0>>]
    /\ before' = [before EXCEPT ![s] = FALSE]
    /\ UNCHANGED <<variant, state, attributes, sinceFetch, lastCall>>

\* ------------------------------------------------------------------------
\* The body of update, one statement per step
\* ------------------------------------------------------------------------

\* (variant of the code) update without the statement self._state = None
update_keep_state(s) ==
    /\ pc[s] = "clear_state"
    /\ pc' = [pc EXCEPT ![s] = "clear_attrs"]
    /\ UNCHANGED <<variant, state, attributes, reply, stations, throttle, sinceFetch,
                   sinceEnd, lastCall, before>>

\* self._state = None
update_clear_state(s) ==
    /\ pc[s] = "clear_state"
    /\ state' = [state EXCEPT ![s] = None]
    /\ pc' = [pc EXCEPT ![s] = "clear_attrs"]
    /\ UNCHANGED <<variant, attributes, reply, stations, throttle, sinceFetch, sinceEnd, lastCall, before>>

\* self._attributes = {}
update_clear_attrs(s) ==
    /\ pc[s] = "clear_attrs"
    /\ attributes' = [attributes EXCEPT ![s] = NoAttributes]
    /\ pc' = [pc EXCEPT ![s] = "fetch"]
    /\ UNCHANGED <<variant, state, reply, stations, throttle, sinceFetch, sinceEnd, lastCall, before>>

\* result = self._api.get_stations(...) / self.rest.update(): the GET, to
\* which the endpoint answers with one of the replies of universe U
update_fetch(s, U) ==
    /\ pc[s] = "fetch"
    /\ \E r \in U : reply' = [reply EXCEPT ![s] = r]
    /\ sinceFetch' = [sinceFetch EXCEPT ![s] = <<0>>]
    /\ pc' = [pc EXCEPT ![s] = "parse"]
    /\ UNCHANGED <<variant, state, attributes, stations, throttle, sinceEnd, lastCall, before>>

\* stations = ...; if stations:
update_parse(s) ==
    /\ pc[s] = "parse"
    /\ LET st == StationsOf(variant, reply[s]) IN
       IF st.exc # ""
       THEN pc' = [pc EXCEPT ![s] = "raised"] /\ UNCHANGED stations
       ELSE /\ stations' = [stations EXCEPT ![s] = st.val]
            /\ pc' = [pc EXCEPT ![s] = IF Truthy(st.val) THEN "set_state" ELSE "returned"]
    /\ UNCHANGED <<variant, state, attributes, reply, throttle, sinceFetch,
                   sinceEnd, lastCall, before>>

\* self._state = stations[0]["price"]
update_set_state(s) ==
    /\ pc[s] = "set_state"
    /\ LET f == Field(stations[s], "price") IN
       IF f.exc # ""
       THEN pc' = [pc EXCEPT ![s] = "raised"] /\ UNCHANGED state
       ELSE pc' = [pc EXCEPT ![s] = "set_brand"]
            /\ state' = [state EXCEPT ![s] = f.val]
    /\ UNCHANGED <<variant, attributes, reply, stations, throttle, sinceFetch, sinceEnd, lastCall, before>>

\* self._attributes[key] = value, where evaluating value may raise
SetAttribute(s, at, key, value, next) ==
    /\ pc[s] = at
    /\ IF value.exc # ""
       THEN pc' = [pc EXCEPT ![s] = "raised"] /\ UNCHANGED attributes
       ELSE pc' = [pc EXCEPT ![s] = next]
            /\ attributes' = [attributes EXCEPT ![s][key] = value.val]
    /\ UNCHANGED <<variant, state, reply, stations, throttle, sinceFetch, sinceEnd, lastCall, before>>

update_set_brand(s) ==
    SetAttribute(s, "set_brand", ATTR_BRAND, brand_value(stations[s]), "set_address")

update_set_address(s) ==
    SetAttribute(s, "set_address", ATTR_ADDRESS, address_value(stations[s]), "set_status")

update_set_status(s) ==
    SetAttribute(s, "set_status", ATTR_STATUS, status_value(stations[s]), "set_latitude")

update_set_latitude(s) ==
    SetAttribute(s, "set_latitude", ATTR_LATITUDE, Field(stations[s], "lat"), "set_longitude")

update_set_longitude(s) ==
    SetAttribute(s, "set_longitude", ATTR_LONGITUDE, Field(stations[s], "lng"), "set_attribution")

update_set_attribution(s) ==
    SetAttribute(s, "set_attribution", ATTR_ATTRIBUTION, Ok(Const(ATTRIBUTION)), "returned")

\* ------------------------------------------------------------------------
\* Time
\* ------------------------------------------------------------------------

\* A duration that only matters up to "more than MIN_TIME_BETWEEN_UPDATES".
Later(d) ==
    IF d = <<>> THEN d
    ELSE IF d[1] > MIN_TIME_BETWEEN_UPDATES THEN d
    ELSE <<d[1] + TickMinutes>>

\* utcnow() advances
Tick ==
    /\ throttle' = [h \in DOMAIN throttle |-> [throttle[h] EXCEPT !.last = Later(@)]]
    /\ sinceFetch' = [s \in Sensors |-> Later(sinceFetch[s])]
    /\ sinceEnd' = [s \in Sensors |-> Later(sinceEnd[s])]
    /\ UNCHANGED <<variant, pc, state, attributes, reply, stations, lastCall, before>>

\* ------------------------------------------------------------------------
\* Specifications
\* ------------------------------------------------------------------------

SensorNext(s, U) ==
    \/ update_call(s)
    \/ update_clear_state(s)
    \/ update_clear_attrs(s)
    \/ update_fetch(s, U)
    \/ update_parse(s)
    \/ update_set_state(s)
    \/ update_set_brand(s)
    \/ update_set_address(s)
    \/ update_set_status(s)
    \/ update_set_latitude(s)
    \/ update_set_longitude(s)
    \/ update_set_attribution(s)
    \/ throttle_return(s)
    \/ throttle_raise(s)

\* One polled sensor, every reply.
Next == SensorNext("s1", Replies) \/ Tick

Spec == Init /\ [][Next]_vars

\* The host keeps polling, a running call runs on, and time passes.
FairSpec == Spec /\ WF_vars(SensorNext("s1", Replies)) /\ WF_vars(Tick)

\* Two polled sensors of the custom component.
InitMulti == Init /\ variant = "custom"

NextMulti == (\E s \in Sensors : SensorNext(s, CoreReplies)) \/ Tick

SpecMulti == InitMulti /\ [][NextMulti]_vars

\* ------------------------------------------------------------------------
\* Vocabulary of the properties
\* ------------------------------------------------------------------------

\* The method body of update has ended, normally or by an exception.
Ended(s) == pc[s] \in {"returned", "raised"}

Cleared(s) == state[s] = None /\ attributes[s] = NoAttributes

Complete(s) == state[s] # None /\ \A k \in AttrKeys : attributes[s][k] # Absent

WithinWindow(d) == d # <<>> /\ d[1] <= MIN_TIME_BETWEEN_UPDATES

\* Title case as the specification describes it: the first letter of each
\* word (a run of letters) is uppercase, its other letters are lowercase,
\* and what is no letter stays as it is.
StartsWord(s, i) == IsCased(s[i]) /\ (i = 1 \/ ~IsCased(s[i - 1]))
TitleCased(s) ==
    [i \in 1..Len(s) |->
        IF ~IsCased(s[i]) THEN s[i]
        ELSE IF StartsWord(s, i) THEN ToUpper(s[i])
        ELSE ToLower(s[i])]

\* A station record of the response schema.
ValidStation(x) ==
    /\ x.t = "dict"
    /\ {"price", "brand", "street", "houseNumber", "isOpen", "lat", "lng"} \subseteq DOMAIN x.d
    /\ x.d.price.t = "num" /\ x.d.lat.t = "num" /\ x.d.lng.t = "num"
    /\ x.d.brand.t = "str" /\ x.d.street.t = "str" /\ x.d.houseNumber.t = "str"
    /\ x.d.isOpen.t = "bool"

\* A valid response with a non-empty station list; the legacy variant also
\* wants a true "ok" flag.
ValidResponse(v, r) ==
    /\ r.transport = "ok"
    /\ r.status = 200
    /\ r.body.t = "dict"
    /\ "stations" \in DOMAIN r.body.d
    /\ r.body.d.stations.t = "list"
    /\ Len(r.body.d.stations.items) > 0
    /\ \A i \in 1..Len(r.body.d.stations.items) : ValidStation(r.body.d.stations.items[i])
    /\ v = "legacy" => ("ok" \in DOMAIN r.body.d /\ r.body.d.ok = Bool(TRUE))

\* The reading the specification derives from a station record.
Reading(x) ==
    [st |-> x.d.price,
     at |-> [k \in AttrKeys |->
               CASE k = ATTR_BRAND -> Str(TitleCased(x.d.brand.s))
                 [] k = ATTR_ADDRESS -> Str(TitleCased(x.d.street.s) \o x.d.houseNumber.s)
                 [] k = ATTR_STATUS -> Const(IF x.d.isOpen.b THEN "open" ELSE "closed")
                 [] k = ATTR_LATITUDE -> x.d.lat
                 [] k = ATTR_LONGITUDE -> x.d.lng
                 [] k = ATTR_ATTRIBUTION -> Const(ATTRIBUTION)]]

\* A JSON response whose "stations" is missing or empty.
StationsMissingOrEmpty(r) ==
    /\ r.transport = "ok"
    /\ r.status = 200
    /\ r.body.t = "dict"
    /\ "stations" \in DOMAIN r.body.d => r.body.d.stations = List(<<>>)

\* Network error, timeout, non-2xx status, or a body that is no JSON.
FetchFailure(r) ==
    \/ r.transport \in {"network", "timeout"}
    \/ r.transport = "ok" /\ r.status \notin 200..299
    \/ r.transport = "ok" /\ r.body.t \in {"garbage", "empty"}

\* The failures the legacy variant's own code sees: no data, or no JSON.
FetchFailureLegacy(r) ==
    \/ r.transport \in {"network", "timeout"}
    \/ r.transport = "ok" /\ r.body.t \in {"garbage", "empty"}

\* ------------------------------------------------------------------------
\* Properties
\* ------------------------------------------------------------------------

\* C1: when the body of an executed update has ended, whatever the reply
\* was, state and attributes are both populated (a state and all six
\* attributes) or both empty (None and {}).
C1_NoPartialUpdate == \A s \in Sensors : Ended(s) => Cleared(s) \/ Complete(s)

\* C2: an executed update that received a valid response with a non-empty
\* station list returns normally with state = stations[0].price, brand and
\* street in title case, address = street followed by the house number with
\* no separator, status from isOpen, latitude/longitude = lat/lng, all of
\* element 0 as received, also when a later station is cheaper.
C2_FirstStationReading ==
    \A s \in Sensors :
        (Ended(s) /\ ValidResponse(variant, reply[s])) =>
            /\ pc[s] = "returned"
            /\ state[s] = Reading(reply[s].body.d.stations.items[1]).st
            /\ attributes[s] = Reading(reply[s].body.d.stations.items[1]).at

\* C2 witness: the reply listed the specification's example station first and a
\* cheaper one second; the reading is 1679 at "Hauptstrasse12" of "Aral".
C2_Witness ==
    /\ pc["s1"] = "returned"
    /\ reply["s1"] = Http(200, Envelope(List(<<StationA, StationB>>)))
    /\ StationB.d.price.n < StationA.d.price.n
    /\ state["s1"] = Num(1679)
    /\ attributes["s1"][ATTR_BRAND] = Str(<<"A", "r", "a", "l">>)
    /\ attributes["s1"][ATTR_ADDRESS] =
           Str(<<"H", "a", "u", "p", "t", "s", "t", "r", "a", "s", "s", "e", "1", "2">>)
    /\ attributes["s1"][ATTR_STATUS] = Const("open")

\* C3: an executed update that received a response whose "stations" is
\* missing or empty ends with state None and attributes {}, in both
\* variants and whatever was exposed before.
C3_MissingOrEmptyClears ==
    \A s \in Sensors :
        (Ended(s) /\ StationsMissingOrEmpty(reply[s])) => Cleared(s)

\* C3 witness: a cycle that began with a state set ended cleared on an
\* envelope without "stations".
C3_Witness ==
    /\ Ended("s1") /\ before["s1"]
    /\ reply["s1"] = Http(200, Dict([ok |-> Bool(TRUE)]))
    /\ Cleared("s1")

C5_OneFetchPerWindow ==
    \A s \in Sensors :
        (pc[s] = "idle" /\ WithinWindow(sinceFetch[s])) => ~WouldExecute(s)

\* C6: every executed update returns normally to the host (no exception
\* leaves update), with the state cleared when the reply was an error.
C6_NeverRaises ==
    \A s \in Sensors :
        /\ pc[s] # "raised"
        /\ (pc[s] = "returned" /\ ~ValidResponse("custom", reply[s])) => Cleared(s)

\* C7: at most one GET per sensor within MIN_TIME_BETWEEN_UPDATES under any
\* interleaving of calls; a call that arrives while an update runs returns
\* at once and changes nothing, and what the sensor then exposes is the
\* last computed state.
C7_ThrottleUnderConcurrency ==
    /\ [][\A s \in Sensors :
            /\ (pc[s] = "fetch" /\ pc'[s] = "parse") => ~WithinWindow(sinceFetch[s])
            /\ (lastCall'[s] = "busy" /\ lastCall[s] # "busy") =>
                   UNCHANGED <<pc, state, attributes, reply, throttle, sinceFetch>>]_vars
    /\ [](\A s \in Sensors :
            (pc[s] \in {"clear_attrs", "fetch", "parse"} /\ before[s]) => state[s] # None)

\* C8: at every point of an executing update a reader of state and
\* attributes sees a complete record or a fully cleared reading.
C8_AtomicReplace == \A s \in Sensors : Cleared(s) \/ Complete(s)

\* C9: a step of one sensor's update (executed, throttled or refused, ended
\* normally or not) leaves every other sensor's state, attributes, position
\* and throttle entry unchanged, and a sensor that was never updated finds
\* its own throttle open whatever the other sensor did.
C9_NoSharedState ==
    /\ [][\A s \in Sensors :
            (pc'[s] # pc[s] \/ lastCall'[s] # lastCall[s]) =>
                \A o \in Sensors \ {s} :
                    /\ state'[o] = state[o]
                    /\ attributes'[o] = attributes[o]
                    /\ pc'[o] = pc[o]
                    /\ ThrottleOf(o)' = ThrottleOf(o)]_vars
    /\ [](\A s \in Sensors : lastCall[s] = "none" => WouldExecute(s))

\* C9 witness: s1 fetched within the window and was then throttled, while s2
\* completed a cycle of its own with a reading.
C9_Witness ==
    /\ lastCall["s1"] = "throttled" /\ WithinWindow(sinceFetch["s1"])
    /\ state["s1"] = None
    /\ pc["s2"] = "returned" /\ WithinWindow(sinceFetch["s2"])
    /\ Complete("s2")

\* A GET of the running cycle is answered with a valid response.
FetchIsValid ==
    \A s \in Sensors :
        (pc[s] = "fetch" /\ pc'[s] = "parse") => ValidResponse(variant, reply'[s])

\* The body of update has ended with the price and attributes of the
\* response just received.
FreshReading(s) ==
    /\ pc[s] = "returned"
    /\ ValidResponse(variant, reply[s])
    /\ state[s] = reply[s].body.d.stations.items[1].d.price
    /\ Complete(s)

\* C10: the first call of update on a sensor executes; when an executed
\* cycle has ended, normally or not, more than MIN_TIME_BETWEEN_UPDATES
\* ago, the next call executes; an executing call always reaches the GET;
\* and if from some time on every GET is answered with a valid response,
\* the polled sensor again and again shows the price just received.
C10_NeverSuppressedForever ==
    /\ [](\A s \in Sensors : lastCall[s] = "none" => WouldExecute(s))
    /\ [](\A s \in Sensors :
            (pc[s] = "idle" /\ sinceEnd[s] # <<>> /\ ~WithinWindow(sinceEnd[s]))
                => WouldExecute(s))
    /\ ((pc["s1"] = "clear_state") ~> (pc["s1"] = "parse"))
    /\ (<>[][FetchIsValid]_vars => []<>FreshReading("s1"))

\* C10 witness: a cycle that began after an earlier one had ended more than
\* MIN_TIME_BETWEEN_UPDATES ago, cleared, shows the price just received.
C10_Witness ==
    /\ FreshReading("s1")
    /\ ~before["s1"]
    /\ sinceEnd["s1"] # <<>> /\ ~WithinWindow(sinceEnd["s1"])

====
